---------------------------- MODULE Spec2Model ----------------------------
(***************************************************************************)
(* Model of the TikAPI test system: the live-status probes of src/app.py   *)
(* and src/test_tikapi.py, the single comparator (compare_single_user) and *)
(* the batch handlers (test_bulk_users, compare_bulk_users,                *)
(* TikAPITester.test_multiple_users).                                      *)
(*                                                                         *)
(* Python values are encoded uniformly:                                    *)
(*   Optional[str]   None -> <<>>,  "s" -> <<"s">>                         *)
(*   Optional[bool]  "True" | "False" | "None"  (and "absent" for a dict   *)
(*                   that has no such key)                                 *)
(*   JSON scalars    tokens "absent" "null" "empty" "123" "zero" "true"    *)
(*                   "false" (key absent, null, "", "123", 0, true, false) *)
(*   floats          exact rationals [num, den], or integers in the unit   *)
(*                   a round()/format call fixes (hundredths, tenths)      *)
(***************************************************************************)
EXTENDS Integers, Sequences, FiniteSets, TLC

VARIABLES
    TIKAPI_KEY,             \* app.py module global: TRUE iff os.getenv gave a key
    TIKTOK_LIVE_AVAILABLE,  \* app.py module global set by the import at start-up
    request,                \* the request being served: endpoint and arguments
    pc,                     \* position of the handler serving the request
    idx,                    \* number of loop items already appended to results
    task,                   \* the probe coroutines of the item in progress
    results,                \* the handler's local list `results`
    sleeps,                 \* pacing delays issued so far
    sleeping,               \* TRUE while the handler is inside a pacing delay
    response                \* what the handler returned (or that it raised)

vars == <<TIKAPI_KEY, TIKTOK_LIVE_AVAILABLE, request, pc, idx, task, results, sleeps,
          sleeping, response>>

---------------------------------------------------------------------------
(* Bounds of the model *)

\* longest list of usernames handed to test_bulk_users
MaxBatch == 3
\* longest list of usernames handed to compare_bulk_users
MaxCompareBatch == 2
\* longest list of usernames handed to TikAPITester.test_multiple_users
MaxScriptBatch == 2

\* usernames, as sequences of characters
Users == {<<"a">>, <<"@", "b">>}
\* elapsed wall-clock time of one probe that did not time out, in seconds
Elapsed == {1, 3}
\* str(e) of the exceptions the transports raise; a time-out of the HTTP
\* client carries an empty message
ExcMessages == {"", "connection refused"}
\* status codes and bodies of the HTTP answers
Statuses == {200, 404, 500}
Texts == {"", "oops"}
\* values of TikAPITester.test_multiple_users' `iterations`
Iterations == {1, 2}

None == <<>>
Some(s) == <<s>>

---------------------------------------------------------------------------
(* The decoded payloads *)

NoPayload ==
    [body |-> "none", userInfo |-> "absent", ui_user |-> "absent",
     ui_roomId |-> "absent", ui_room_id |-> "absent", ui_isLive |-> "absent",
     ui_is_live |-> "absent", roomId |-> "absent", user |-> "absent",
     user_is_live |-> "absent", data |-> "absent", data_is_live |-> "absent"]

\* the shapes of data["userInfo"], data["user"] and data["data"]: a child is
\* "absent" unless its parent is an object
UserInfoParts ==
    [userInfo : {"absent", "null"}, ui_user : {"absent"},
     ui_roomId : {"absent"}, ui_room_id : {"absent"}, ui_isLive : {"absent"},
     ui_is_live : {"absent"}]
    \cup
    [userInfo : {"object"}, ui_user : {"absent", "null"},
     ui_roomId : {"absent"}, ui_room_id : {"absent"}, ui_isLive : {"absent"},
     ui_is_live : {"absent"}]
    \cup
    [userInfo : {"object"}, ui_user : {"object"},
     ui_roomId : {"absent", "null", "empty", "123", "zero"},
     ui_room_id : {"absent", "123"}, ui_isLive : {"absent", "true"},
     ui_is_live : {"absent", "true"}]
UserParts ==
    [user : {"absent", "null"}, user_is_live : {"absent"}]
    \cup
    [user : {"object"}, user_is_live : {"absent", "null", "true", "false"}]
DataParts ==
    [data : {"absent"}, data_is_live : {"absent"}]
    \cup
    [data : {"object"}, data_is_live : {"absent", "true", "false"}]

\* every shape of payload the model draws: body is what response.json() meets
\* (not JSON, a JSON array, a JSON object); the other fields are the keys of
\* the object the two clients look at
Payloads ==
    { [NoPayload EXCEPT !.body = b] : b \in {"notjson", "array"} }
    \cup
    { [body |-> "object", userInfo |-> ui.userInfo, ui_user |-> ui.ui_user,
       ui_roomId |-> ui.ui_roomId, ui_room_id |-> ui.ui_room_id,
       ui_isLive |-> ui.ui_isLive, ui_is_live |-> ui.ui_is_live,
       roomId |-> r, user |-> u.user, user_is_live |-> u.user_is_live,
       data |-> d.data, data_is_live |-> d.data_is_live] :
        ui \in UserInfoParts, r \in {"absent", "123"}, u \in UserParts,
        d \in DataParts }

\* the Python value of a JSON scalar, as the token the model uses for it
PyValue(t) ==
    CASE t = "true" -> "True"
      [] t = "false" -> "False"
      [] t = "null" -> "None"
      [] OTHER -> t

---------------------------------------------------------------------------
(* What the transports answer *)

\* an HTTP GET: a response (status, text, payload), a time-out or another
\* exception, the last two with the exception's str()
HttpOutcomes ==
    [kind : {"response"}, status : {200}, text : {""}, payload : Payloads,
     msg : {""}]
    \cup
    [kind : {"response"}, status : Statuses \ {200}, text : Texts,
     payload : {NoPayload}, msg : {""}]
    \cup
    [kind : {"timeout", "exception"}, status : {0}, text : {""},
     payload : {NoPayload}, msg : ExcMessages]

\* TikTokLiveClient(...).is_live() under asyncio.wait_for: a boolean, a
\* time-out, UserOffline, LiveNotFound, or another exception
TikTokLiveOutcomes ==
    [kind : {"return"}, value : BOOLEAN, msg : {""}]
    \cup
    [kind : {"timeout", "offline", "notfound"}, value : {FALSE}, msg : {""}]
    \cup
    [kind : {"exception"}, value : {FALSE}, msg : ExcMessages]

PyBool(b) == IF b THEN "True" ELSE "False"

\* the per-probe time-out, in seconds (timeout=15.0, timeout=15)
TIMEOUT == 15
\* time.time() - start_time of a probe whose transport answered o
ElapsedOf(o) == IF o.kind = "timeout" THEN {TIMEOUT} ELSE Elapsed
\* (time.time() - start_time) * 1000
Millis(e) == e * 1000

---------------------------------------------------------------------------
(* TikAPIClient.check_live_status (src/app.py) *)

\* user_info = data.get("userInfo", {}).get("user", {}) and the two
\* user_info.get("roomId") raise AttributeError unless each receiver is a dict
UserInfoRaises(p) ==
    \/ p.body # "object"
    \/ p.userInfo = "null"
    \/ p.ui_user = "null"

\* is_live = user_info.get("roomId") is not None and user_info.get("roomId") != ""
\* (faulty variant: the test against "" is dropped)
M_is_live_from_roomId(p) == p.ui_roomId \notin {"absent", "null"}
is_live_from_roomId(p) == p.ui_roomId \notin {"absent", "null", "empty"}

\* the body of the try block: what it returns, or that it raised (and str(e))
check_live_status_try(o, rt) ==
    IF o.kind # "response"
    THEN [raised |-> TRUE, success |-> FALSE, is_live |-> "None",
          response_time |-> rt, error |-> Some(o.msg)]
    ELSE IF o.status = 200
    THEN IF o.payload.body = "notjson" \/ UserInfoRaises(o.payload)
         THEN [raised |-> TRUE, success |-> FALSE, is_live |-> "None",
               response_time |-> rt,
               error |-> Some(IF o.payload.body = "notjson"
                              THEN "Expecting value"
                              ELSE "object has no attribute 'get'")]
         ELSE [raised |-> FALSE, success |-> TRUE,
               is_live |-> PyBool(is_live_from_roomId(o.payload)),
               response_time |-> rt, error |-> None]
    ELSE [raised |-> FALSE, success |-> FALSE, is_live |-> "None",
          response_time |-> rt,
          error |-> Some("HTTP " \o ToString(o.status) \o ": " \o o.text)]

\* (faulty variant: no except clause, the exception leaves the probe)
M_check_live_status(o, rt) == check_live_status_try(o, rt)
\* except Exception as e: the failed result with error = str(e)
check_live_status(o, rt) ==
    LET r == check_live_status_try(o, rt)
    IN  IF r.raised THEN [r EXCEPT !.raised = FALSE] ELSE r

---------------------------------------------------------------------------
(* check_with_tiktok_live (src/app.py) *)

\* username.lstrip('@')
RECURSIVE lstrip_at(_)
lstrip_at(u) ==
    IF u # <<>> /\ Head(u) = "@" THEN lstrip_at(Tail(u)) ELSE u

\* the body after the availability test: try / except TimeoutError /
\* except (UserOffline, LiveNotFound) / except Exception
tiktok_live_try(o, rt) ==
    CASE o.kind = "return" ->
           [raised |-> FALSE, success |-> TRUE, is_live |-> PyBool(o.value),
            response_time |-> rt, error |-> None]
      [] o.kind = "timeout" ->
           [raised |-> FALSE, success |-> FALSE, is_live |-> "None",
            response_time |-> rt, error |-> Some("Timeout")]
      [] o.kind \in {"offline", "notfound"} ->
           [raised |-> FALSE, success |-> TRUE, is_live |-> "False",
            response_time |-> rt, error |-> None]
      [] OTHER ->
           [raised |-> FALSE, success |-> FALSE, is_live |-> "None",
            response_time |-> rt, error |-> Some(o.msg)]

check_with_tiktok_live(available, o, rt) ==
    IF ~available
    THEN [raised |-> FALSE, success |-> FALSE, is_live |-> "None",
          response_time |-> 0, error |-> Some("TikTokLive not available")]
    ELSE tiktok_live_try(o, rt)

---------------------------------------------------------------------------
(* TikAPITester.check_user_live_status (src/test_tikapi.py) *)

\* TikAPITester._extract_live_status: data['user'].get('is_live', False) if
\* 'user' in data, else data['data'].get('is_live', False) if 'data' in data,
\* else False; any exception gives False
extract_live_status(p) ==
    IF p.body # "object" THEN "False"
    ELSE IF p.user # "absent"
    THEN IF p.user # "object" THEN "False"
         ELSE IF p.user_is_live = "absent" THEN "False"
         ELSE PyValue(p.user_is_live)
    ELSE IF p.data # "absent"
    THEN IF p.data_is_live = "absent" THEN "False"
         ELSE PyValue(p.data_is_live)
    ELSE "False"

\* the result dict (raised: whether the call raised instead of returning it);
\* a key the dict does not hold is is_live = "absent", error = <<>>,
\* status_code = 0
check_user_live_status(username, o, e) ==
    CASE o.kind = "timeout" ->
           [raised |-> FALSE, username |-> username, success |-> FALSE, is_live |-> "absent",
            response_time |-> e, error |-> Some("Timeout"), status_code |-> 0]
      [] o.kind = "exception" ->
           [raised |-> FALSE, username |-> username, success |-> FALSE, is_live |-> "absent",
            response_time |-> e, error |-> Some(o.msg), status_code |-> 0]
      [] o.kind = "response" /\ o.status # 200 ->
           [raised |-> FALSE, username |-> username, success |-> FALSE, is_live |-> "absent",
            response_time |-> e,
            error |-> Some("HTTP " \o ToString(o.status)), status_code |-> 0]
      [] o.kind = "response" /\ o.status = 200 /\ o.payload.body = "notjson" ->
           [raised |-> FALSE, username |-> username, success |-> FALSE, is_live |-> "absent",
            response_time |-> e, error |-> Some("Expecting value"),
            status_code |-> 0]
      [] OTHER ->
           [raised |-> FALSE, username |-> username, success |-> TRUE,
            is_live |-> extract_live_status(o.payload),
            response_time |-> e, error |-> <<>>, status_code |-> o.status]

---------------------------------------------------------------------------
(* Sequences and arithmetic *)

RECURSIVE SeqsUpTo(_, _)
SeqsUpTo(S, n) ==
    IF n = 0 THEN {<<>>}
    ELSE LET shorter == SeqsUpTo(S, n - 1)
         IN  shorter \cup {Append(q, x) : q \in shorter, x \in S}

\* sum(s) of a list of numbers
RECURSIVE SumOf(_)
SumOf(s) == IF Len(s) = 0 THEN 0 ELSE Head(s) + SumOf(Tail(s))

\* the term of r in sum(v for r in ... if c)
Pick(c, v) == IF c THEN v ELSE 0

\* a float as the exact rational num/den
Rat(n, d) == [num |-> n, den |-> d]
Zero == Rat(0, 1)
RatEq(x, y) == x.num * y.den = y.num * x.den

\* num/den rounded to the nearest integer (num >= 0, den > 0); the batches of
\* the model never hit a tie
RoundDiv(num, den) == (2 * num + den) \div (2 * den)

---------------------------------------------------------------------------
(* The requests *)

\* the transports' answers inside a batch
PayloadLive ==
    [NoPayload EXCEPT !.body = "object", !.userInfo = "object",
                      !.ui_user = "object", !.ui_roomId = "123",
                      !.user = "object", !.user_is_live = "true"]
PayloadNotLive ==
    [NoPayload EXCEPT !.body = "object", !.userInfo = "object",
                      !.ui_user = "object", !.ui_roomId = "empty",
                      !.user = "object", !.user_is_live = "false"]
PayloadNotJson == [NoPayload EXCEPT !.body = "notjson"]
HttpResponse(status, text, payload) ==
    [kind |-> "response", status |-> status, text |-> text,
     payload |-> payload, msg |-> ""]
HttpException(kind, msg) ==
    [kind |-> kind, status |-> 0, text |-> "", payload |-> NoPayload,
     msg |-> msg]
BatchHttpOutcomes ==
    { HttpResponse(200, "", PayloadLive), HttpResponse(200, "", PayloadNotLive),
      HttpResponse(200, "", PayloadNotJson), HttpResponse(500, "oops", NoPayload),
      HttpException("timeout", ""),
      HttpException("exception", "connection refused") }
BatchElapsed == {1}

IsBatch(req) ==
    req.endpoint \in {"test_bulk_users", "compare_bulk_users",
                      "test_multiple_users"}

HttpOutcomesOf(req) == IF IsBatch(req) THEN BatchHttpOutcomes ELSE HttpOutcomes
ElapsedIn(req, o) ==
    IF o.kind = "timeout" THEN {TIMEOUT}
    ELSE IF IsBatch(req) THEN BatchElapsed ELSE Elapsed

\* the probes one item of the request runs: A is TikAPIClient.check_live_status,
\* B is check_with_tiktok_live, T is TikAPITester.check_user_live_status
SourcesOf(req) ==
    CASE req.endpoint \in {"test_single_user", "test_bulk_users"} -> {"A"}
      [] req.endpoint \in {"compare_single_user", "compare_bulk_users"} -> {"A", "B"}
      [] OTHER -> {"T"}

\* for i in range(iterations): for username in usernames
NumItems(req) == req.iterations * Len(req.usernames)
UserOfItem(req, i) == req.usernames[((i - 1) % Len(req.usernames)) + 1]

NoResult ==
    [raised |-> FALSE, success |-> FALSE, is_live |-> "None",
     response_time |-> 0, error |-> None]
NoScriptResult ==
    [raised |-> FALSE, username |-> <<>>, success |-> FALSE, is_live |-> "absent",
     response_time |-> 0, error |-> None, status_code |-> 0]

Running(ts) == {t \in ts : t.st = "running"}
TaskOf(ts, i, src) == CHOOSE t \in ts : t.item = i /\ t.src = src

---------------------------------------------------------------------------
(* compare_single_user (src/app.py) *)

\* (faulty variant: the answers are compared without the success test)
M_match_of(a, b) == PyBool(a.is_live = b.is_live)
\* match = None; if both succeeded: match = (A.is_live == B.is_live)
match_of(a, b) ==
    IF a.success /\ b.success THEN PyBool(a.is_live = b.is_live) ELSE "None"

TestResult(username, a, b) ==
    [username |-> username,
     tikapi_success |-> a.success,
     tikapi_is_live |-> a.is_live,
     tikapi_response_time |-> a.response_time,
     tikapi_error |-> a.error,
     tiktok_live_success |-> b.success,
     tiktok_live_is_live |-> b.is_live,
     tiktok_live_response_time |-> b.response_time,
     tiktok_live_error |-> b.error,
     match |-> match_of(a, b)]

\* await asyncio.gather(tikapi_task, tiktok_live_task): the awaiter resumes
\* when every task has finished, or as soon as one has raised
gather_ready(ts, i) ==
    \/ \A t \in ts : t.item = i => t.st = "done"
    \/ \E t \in ts : t.item = i /\ t.st = "done" /\ t.res.raised
gather_raised(ts, i) ==
    \E t \in ts : t.item = i /\ t.st = "done" /\ t.res.raised

\* the dict test_single_user and test_bulk_users build from a probe's result
single_entry(username, r) ==
    [username |-> username, success |-> r.success, is_live |-> r.is_live,
     response_time_ms |-> r.response_time, error |-> r.error]

---------------------------------------------------------------------------
(* The aggregates *)

\* sum(1 for r in rs if r[f]) for a boolean field f
CountTrue(rs, f) == SumOf([k \in DOMAIN rs |-> Pick(rs[k][f], 1)])
\* [r[f] for r in rs if r[f]], as (sum, len): a time of 0 is falsy
SumTruthy(rs, f) == SumOf([k \in DOMAIN rs |-> rs[k][f]])
CountTruthy(rs, f) == SumOf([k \in DOMAIN rs |-> Pick(rs[k][f] # 0, 1)])
\* sum(r[f] for r in rs if r[c]) for a boolean field c
SumWhere(rs, c, f) == SumOf([k \in DOMAIN rs |-> Pick(rs[k][c], rs[k][f])])

\* test_bulk_users, after the loop: success_rate in tenths of a percent
\* ("{:.1f}%"), avg_response_time_ms in hundredths of a millisecond (round(, 2))
bulk_summary(usernames, rs) ==
    LET success_count == CountTrue(rs, "success")
        total_response_time == SumTruthy(rs, "response_time_ms")
        avg_response_time == IF Len(rs) # 0
                             THEN Rat(total_response_time, Len(rs))
                             ELSE Zero
    IN  IF Len(usernames) = 0
        THEN [error |-> "ZeroDivisionError"]
        ELSE [error |-> "",
              total_users |-> Len(usernames),
              success_count |-> success_count,
              success_rate |-> RoundDiv(1000 * success_count, Len(usernames)),
              avg_response_time_ms |->
                  RoundDiv(100 * avg_response_time.num, avg_response_time.den),
              results |-> rs]

\* sum(1 for r in results if r.match is True)
CountMatches(rs) == SumOf([k \in DOMAIN rs |-> Pick(rs[k].match = "True", 1)])

\* compare_bulk_users, after the loop: the rates are floats (exact rationals
\* here), the averages are in hundredths of a millisecond (round(, 2))
ComparisonStats(rs) ==
    LET total == Len(rs)
        tikapi_success == CountTrue(rs, "tikapi_success")
        tiktok_live_success == CountTrue(rs, "tiktok_live_success")
        matches == CountMatches(rs)
        n_tikapi_times == CountTruthy(rs, "tikapi_response_time")
        n_tiktok_live_times == CountTruthy(rs, "tiktok_live_response_time")
        tikapi_avg ==
            IF n_tikapi_times # 0
            THEN Rat(SumTruthy(rs, "tikapi_response_time"), n_tikapi_times)
            ELSE Zero
        tiktok_live_avg ==
            IF n_tiktok_live_times # 0
            THEN Rat(SumTruthy(rs, "tiktok_live_response_time"),
                     n_tiktok_live_times)
            ELSE Zero
    IN  IF total = 0
        THEN [error |-> "ZeroDivisionError"]
        ELSE [error |-> "",
              total_tests |-> total,
              tikapi_success_rate |-> Rat(100 * tikapi_success, total),
              tiktok_live_success_rate |-> Rat(100 * tiktok_live_success, total),
              match_rate |-> IF matches > 0 THEN Rat(100 * matches, total)
                             ELSE Zero,
              tikapi_avg_response_time |->
                  RoundDiv(100 * tikapi_avg.num, tikapi_avg.den),
              tiktok_live_avg_response_time |->
                  RoundDiv(100 * tiktok_live_avg.num, tiktok_live_avg.den),
              results |-> rs]

\* bool(v) of a Python value
Truthy(v) == v \notin {"False", "None", "absent", "empty", "zero"}

\* TikAPITester._generate_summary
generate_summary(rs) ==
    LET total == Len(rs)
        successful == CountTrue(rs, "success")
        live_count == SumOf([k \in DOMAIN rs |-> Pick(Truthy(rs[k].is_live), 1)])
    IN  [error |-> "",
         total_tests |-> total,
         successful |-> successful,
         failed |-> total - successful,
         success_rate |-> IF total > 0 THEN Rat(successful * 100, total) ELSE Zero,
         average_response_time |->
             IF successful # 0
             THEN Rat(SumWhere(rs, "success", "response_time"), successful)
             ELSE Zero,
         live_detected |-> live_count,
         offline_detected |-> successful - live_count,
         results |-> rs]

---------------------------------------------------------------------------
(* The handlers, one action per step between two suspensions *)

\* the requests of the batch endpoints
BatchRequests ==
    [endpoint : {"test_bulk_users"}, usernames : SeqsUpTo(Users, MaxBatch),
     iterations : {1}]
    \cup
    [endpoint : {"compare_bulk_users"},
     usernames : SeqsUpTo(Users, MaxCompareBatch), iterations : {1}]
    \cup
    [endpoint : {"test_multiple_users"},
     usernames : SeqsUpTo(Users, MaxScriptBatch), iterations : Iterations]

\* the request of GET /compare/{username}
CompareRequests ==
    [endpoint : {"compare_single_user"}, usernames : {<<u>> : u \in Users},
     iterations : {1}]

InitCommon ==
    /\ TIKAPI_KEY \in BOOLEAN
    /\ TIKTOK_LIVE_AVAILABLE \in BOOLEAN
    /\ pc = "start"
    /\ idx = 0
    /\ task = {}
    /\ results = <<>>
    /\ sleeps = 0
    /\ sleeping = FALSE
    /\ response = [error |-> ""]

\* the script is a process of its own: app.py's globals play no part in it
Init ==
    /\ InitCommon
    /\ request \in BatchRequests
    /\ request.endpoint = "test_multiple_users" =>
           TIKAPI_KEY /\ ~TIKTOK_LIVE_AVAILABLE
InitCompare == InitCommon /\ request \in CompareRequests

\* if not TIKAPI_KEY: raise HTTPException(status_code=500, ...); the script's
\* test_multiple_users has no such test
KeyMissing ==
    /\ pc = "start"
    /\ request.endpoint # "test_multiple_users"
    /\ ~TIKAPI_KEY
    /\ pc' = "raised"
    /\ response' = [error |-> "HTTP 500: TIKAPI_KEY not configured"]
    /\ UNCHANGED <<TIKAPI_KEY, TIKTOK_LIVE_AVAILABLE, request, idx, task,
                   results, sleeps, sleeping>>

Enter ==
    /\ pc = "start"
    /\ request.endpoint = "test_multiple_users" \/ TIKAPI_KEY
    /\ pc' = "loop"
    /\ UNCHANGED <<TIKAPI_KEY, TIKTOK_LIVE_AVAILABLE, request, idx, task,
                   results, sleeps, sleeping, response>>

\* the handler reaches the probe call(s) of the next item: the coroutines
\* (the blocking call, in the script) are started
ItemStart ==
    /\ pc = "loop"
    /\ idx < NumItems(request)
    /\ task' = task \cup
         { [item |-> idx + 1, src |-> src, st |-> "running",
            target |-> IF src = "B"
                       THEN lstrip_at(UserOfItem(request, idx + 1))
                       ELSE UserOfItem(request, idx + 1),
            res |-> IF src = "T" THEN NoScriptResult ELSE NoResult]
           : src \in SourcesOf(request) }
    /\ pc' = "await_probe"
    /\ UNCHANGED <<TIKAPI_KEY, TIKTOK_LIVE_AVAILABLE, request, idx, results,
                   sleeps, sleeping, response>>

\* TikAPIClient.check_live_status runs to its return
TikAPIProbeFinish ==
    \E t \in Running(task) :
        /\ t.src = "A"
        /\ \E o \in HttpOutcomesOf(request) : \E e \in ElapsedIn(request, o) :
             task' = (task \ {t}) \cup
                 {[t EXCEPT !.st = "done",
                            !.res = check_live_status(o, Millis(e))]}
        /\ UNCHANGED <<TIKAPI_KEY, TIKTOK_LIVE_AVAILABLE, request, pc, idx,
                       results, sleeps, sleeping, response>>

\* check_with_tiktok_live runs to its return
TikTokLiveProbeFinish ==
    \E t \in Running(task) :
        /\ t.src = "B"
        /\ \E o \in TikTokLiveOutcomes : \E e \in ElapsedIn(request, o) :
             task' = (task \ {t}) \cup
                 {[t EXCEPT !.st = "done",
                            !.res = check_with_tiktok_live(
                                        TIKTOK_LIVE_AVAILABLE, o, Millis(e))]}
        /\ UNCHANGED <<TIKAPI_KEY, TIKTOK_LIVE_AVAILABLE, request, pc, idx,
                       results, sleeps, sleeping, response>>

\* TikAPITester.check_user_live_status runs to its return
ScriptProbeFinish ==
    \E t \in Running(task) :
        /\ t.src = "T"
        /\ \E o \in HttpOutcomesOf(request) : \E e \in ElapsedIn(request, o) :
             task' = (task \ {t}) \cup
                 {[t EXCEPT !.st = "done",
                            !.res = check_user_live_status(t.target, o, e)]}
        /\ UNCHANGED <<TIKAPI_KEY, TIKTOK_LIVE_AVAILABLE, request, pc, idx,
                       results, sleeps, sleeping, response>>

\* (faulty variant: the probes are started and not awaited)
M_probes_returned(ts, i) == TRUE
\* the awaited probe call(s) of item i hand control back to the handler
probes_returned(ts, i) ==
    IF \E t \in ts : t.item = i /\ t.src = "B"
    THEN gather_ready(ts, i)
    ELSE \A t \in ts : t.item = i => t.st = "done"

\* results.append(result) of test_multiple_users: the probe's dict itself
script_entry(r) ==
    [username |-> r.username, success |-> r.success, is_live |-> r.is_live,
     response_time |-> r.response_time, error |-> r.error,
     status_code |-> r.status_code]

\* the entry the handler builds for item i from its probes' results
EntryOf(req, ts, i) ==
    CASE SourcesOf(req) = {"A"} ->
           single_entry(UserOfItem(req, i), TaskOf(ts, i, "A").res)
      [] SourcesOf(req) = {"A", "B"} ->
           TestResult(UserOfItem(req, i), TaskOf(ts, i, "A").res,
                      TaskOf(ts, i, "B").res)
      [] OTHER -> script_entry(TaskOf(ts, i, "T").res)

\* whether a pacing delay follows item i of n: asyncio.sleep(0.5) and
\* time.sleep(1) are the last statement of every iteration
\* (faulty variant: no delay after the last item)
M_paced_after(i, n) == i < n
paced_after(i, n) == TRUE

\* a batch handler resumes after the probe(s) of the current item: it appends
\* the entry and enters the pacing delay
ItemResume ==
    /\ pc = "await_probe"
    /\ IsBatch(request)
    /\ probes_returned(task, idx + 1)
    /\ IF gather_raised(task, idx + 1)
       THEN /\ pc' = "raised"
            /\ response' = [error |-> "exception"]
            /\ UNCHANGED <<idx, results, sleeps, sleeping>>
       ELSE /\ results' = Append(results, EntryOf(request, task, idx + 1))
            /\ idx' = idx + 1
            /\ IF paced_after(idx + 1, NumItems(request))
               THEN sleeps' = sleeps + 1 /\ sleeping' = TRUE /\ pc' = "await_sleep"
               ELSE UNCHANGED <<sleeps, sleeping>> /\ pc' = "loop"
            /\ UNCHANGED response
    /\ task' = {t \in task : ~(t.item = idx + 1 /\ t.st = "done")}
    /\ UNCHANGED <<TIKAPI_KEY, TIKTOK_LIVE_AVAILABLE, request>>

\* the pacing delay elapses and the loop goes on
SleepEnd ==
    /\ pc = "await_sleep"
    /\ sleeping
    /\ sleeping' = FALSE
    /\ pc' = "loop"
    /\ UNCHANGED <<TIKAPI_KEY, TIKTOK_LIVE_AVAILABLE, request, idx, task,
                   results, sleeps, response>>

\* after the loop: the statistics and the return
Aggregate ==
    /\ pc = "loop"
    /\ idx = NumItems(request)
    /\ response' = CASE request.endpoint = "test_bulk_users" ->
                          bulk_summary(request.usernames, results)
                     [] request.endpoint = "compare_bulk_users" ->
                          ComparisonStats(results)
                     [] OTHER -> generate_summary(results)
    /\ pc' = IF response'.error = "" THEN "done" ELSE "raised"
    /\ UNCHANGED <<TIKAPI_KEY, TIKTOK_LIVE_AVAILABLE, request, idx, task,
                   results, sleeps, sleeping>>

\* compare_single_user returns its TestResult once gather has handed back
CompareReturn ==
    /\ pc = "await_probe"
    /\ request.endpoint = "compare_single_user"
    /\ probes_returned(task, 1)
    /\ IF gather_raised(task, 1)
       THEN pc' = "raised" /\ response' = [error |-> "exception"]
       ELSE pc' = "done" /\ response' = TestResult(UserOfItem(request, 1),
                                                   TaskOf(task, 1, "A").res,
                                                   TaskOf(task, 1, "B").res)
    /\ UNCHANGED <<TIKAPI_KEY, TIKTOK_LIVE_AVAILABLE, request, idx, task,
                   results, sleeps, sleeping>>

Next ==
    \/ KeyMissing
    \/ Enter
    \/ ItemStart
    \/ TikAPIProbeFinish
    \/ TikTokLiveProbeFinish
    \/ ScriptProbeFinish
    \/ ItemResume
    \/ SleepEnd
    \/ Aggregate

Spec == Init /\ [][Next]_vars

NextCompare ==
    \/ KeyMissing
    \/ Enter
    \/ ItemStart
    \/ TikAPIProbeFinish
    \/ TikTokLiveProbeFinish
    \/ CompareReturn

SpecCompare == InitCompare /\ [][NextCompare]_vars

---------------------------------------------------------------------------
(* The probes called on their own, on every answer of the transport *)

ProbeCalls ==
    [endpoint : {"check_live_status", "check_user_live_status"},
     usernames : {<<u>> : u \in Users}, iterations : {1},
     outcome : HttpOutcomes, elapsed : Elapsed \cup {TIMEOUT}]
    \cup
    [endpoint : {"check_with_tiktok_live"},
     usernames : {<<u>> : u \in Users}, iterations : {1},
     outcome : TikTokLiveOutcomes, elapsed : Elapsed \cup {TIMEOUT}]

InitProbe ==
    /\ InitCommon
    /\ TIKAPI_KEY
    /\ request \in ProbeCalls
    /\ request.elapsed \in ElapsedOf(request.outcome)
    /\ request.endpoint # "check_with_tiktok_live" => ~TIKTOK_LIVE_AVAILABLE

Returned(r) ==
    /\ response' = r
    /\ pc' = IF r.raised THEN "raised" ELSE "done"
    /\ UNCHANGED <<TIKAPI_KEY, TIKTOK_LIVE_AVAILABLE, request, idx, task,
                   results, sleeps, sleeping>>

CallCheckLiveStatus ==
    /\ pc = "start"
    /\ request.endpoint = "check_live_status"
    /\ Returned(check_live_status(request.outcome, Millis(request.elapsed)))

CallCheckWithTikTokLive ==
    /\ pc = "start"
    /\ request.endpoint = "check_with_tiktok_live"
    /\ Returned(check_with_tiktok_live(TIKTOK_LIVE_AVAILABLE, request.outcome,
                                       Millis(request.elapsed)))

CallCheckUserLiveStatus ==
    /\ pc = "start"
    /\ request.endpoint = "check_user_live_status"
    /\ Returned(check_user_live_status(request.usernames[1], request.outcome,
                                       request.elapsed))

NextProbe ==
    \/ CallCheckLiveStatus
    \/ CallCheckWithTikTokLive
    \/ CallCheckUserLiveStatus

SpecProbe == InitProbe /\ [][NextProbe]_vars

---------------------------------------------------------------------------
(* Properties *)

KeyConfigured == request.endpoint = "test_multiple_users" \/ TIKAPI_KEY
\* the handler has returned or raised past its configuration test
Finished == pc \in {"done", "raised"} /\ KeyConfigured

\* C1: compare_single_user sets match iff both probes succeeded; when set it
\* equals (A.is_live == B.is_live), and when either probe failed it is None,
\* never False.  (SpecCompare)
C1_MatchIffBothSucceeded ==
    (pc = "done" /\ request.endpoint = "compare_single_user") =>
        /\ (response.match # "None") <=>
               (response.tikapi_success /\ response.tiktok_live_success)
        /\ (response.tikapi_success /\ response.tiktok_live_success) =>
               response.match =
                   PyBool(response.tikapi_is_live = response.tiktok_live_is_live)
        /\ response.match \in {"True", "False", "None"}

\* C1 witness: both probes succeeded with different answers, match is False
C1_Witness ==
    /\ pc = "done" /\ request.endpoint = "compare_single_user"
    /\ response.tikapi_success /\ response.tiktok_live_success
    /\ response.tikapi_is_live = "True" /\ response.tiktok_live_is_live = "False"
    /\ response.match = "False"

\* C2: compare_single_user returns only after both probes have finished, each
\* with a result of its own, whatever the other did (success, error, time-out)
\* and in whichever order they finish: at the return no probe is still
\* running, none was dropped, and the TestResult carries both results.
\* (SpecCompare)
C2_ReturnsAfterBothProbes ==
    (Finished /\ request.endpoint = "compare_single_user") =>
        /\ pc = "done"
        /\ \A src \in {"A", "B"} :
             \E t \in task : t.item = 1 /\ t.src = src /\ t.st = "done"
        /\ Running(task) = {}
        /\ response.tikapi_response_time = TaskOf(task, 1, "A").res.response_time
        /\ response.tikapi_error = TaskOf(task, 1, "A").res.error
        /\ response.tiktok_live_response_time =
               TaskOf(task, 1, "B").res.response_time
        /\ response.tiktok_live_error = TaskOf(task, 1, "B").res.error

\* C2 witness: probe A timed out (an exception of the HTTP client) and probe B
\* still delivered its own successful answer before the return
C2_Witness ==
    /\ pc = "done" /\ request.endpoint = "compare_single_user"
    /\ ~response.tikapi_success
    /\ response.tikapi_response_time = Millis(TIMEOUT)
    /\ response.tiktok_live_success
    /\ response.tiktok_live_is_live = "True"

\* C3: inside one batch the identifiers are processed strictly one after the
\* other, in input order: every probe in flight belongs to the item that
\* follows the entries already appended, the pacing delays of all earlier
\* items have been issued and have elapsed, and so probes of two different
\* identifiers are never in flight together.  (Spec)
C3_ItemsStrictlySequential ==
    /\ \A t \in task :
         /\ t.item = Len(results) + 1
         /\ t.item <= NumItems(request)
         /\ ~sleeping
         /\ sleeps >= t.item - 1
         /\ t.target = IF t.src = "B"
                       THEN lstrip_at(UserOfItem(request, t.item))
                       ELSE UserOfItem(request, t.item)
    /\ \A k \in 1..Len(results) :
         results[k].username = UserOfItem(request, k)

\* C3 witness: both probes of the second identifier of a comparison batch are
\* in flight, after the first identifier's entry and delay
C3_Witness ==
    /\ request.endpoint = "compare_bulk_users"
    /\ Len(results) = 1 /\ sleeps = 1
    /\ \E a, b \in Running(task) :
         a.src = "A" /\ b.src = "B" /\ a.item = 2 /\ b.item = 2

\* C4 as stated: a batch of N >= 1 identifiers issues exactly N-1 pacing
\* delays, with no wait after the last item.
C4_Original_NoTrailingDelay ==
    (pc = "done" /\ IsBatch(request) /\ NumItems(request) >= 1) =>
        sleeps = NumItems(request) - 1

\* C4 amended: a batch issues exactly one pacing delay per processed item,
\* the last item included: the delays issued always equal the entries
\* appended, and a finished batch of N items has issued N delays.  (Spec)
C4_OneDelayPerItem ==
    /\ sleeps = Len(results)
    /\ (Finished /\ IsBatch(request)) => sleeps = NumItems(request)
    /\ (pc = "done" /\ IsBatch(request)) => ~sleeping

\* C4 witness: a finished batch of 3 identifiers has issued 3 delays
C4_Witness ==
    /\ pc = "done" /\ request.endpoint = "test_bulk_users"
    /\ Len(request.usernames) = 3
    /\ sleeps = 3

\* len([r for r in results if r.match is not None])
CountDefined(rs) == SumOf([k \in DOMAIN rs |-> Pick(rs[k].match # "None", 1)])

\* C5 as stated: match_rate of compare_bulk_users is 100 * (entries with
\* match == True) / (entries with match defined).
C5_Claim_MatchRateOverDefined ==
    (pc = "done" /\ request.endpoint = "compare_bulk_users"
       /\ CountDefined(results) > 0) =>
        RatEq(response.match_rate,
              Rat(100 * CountMatches(results), CountDefined(results)))

\* the mean of the times of the entries whose flag c is true, in hundredths
MeanWhere(rs, c, f) ==
    IF CountTrue(rs, c) = 0 THEN 0
    ELSE RoundDiv(100 * SumWhere(rs, c, f), CountTrue(rs, c))

\* C6 as stated: the reported average latency of a source is the mean of the
\* latencies of exactly the entries where that source's probe succeeded.
C6_Claim_AverageOverSucceeded ==
    /\ (pc = "done" /\ request.endpoint = "test_bulk_users") =>
          response.avg_response_time_ms =
              MeanWhere(results, "success", "response_time_ms")
    /\ (pc = "done" /\ request.endpoint = "compare_bulk_users") =>
          /\ response.tikapi_avg_response_time =
                MeanWhere(results, "tikapi_success", "tikapi_response_time")
          /\ response.tiktok_live_avg_response_time =
                MeanWhere(results, "tiktok_live_success",
                          "tiktok_live_response_time")

\* C7 as stated: every aggregate of a batch is computed without raising for
\* every input list, the empty list included, and an aggregate whose
\* denominator is empty is 0.
C7_Claim_AggregatesNeverRaise ==
    (Finished /\ IsBatch(request)) =>
        /\ pc = "done"
        /\ (request.endpoint = "test_bulk_users" /\ results = <<>>) =>
              response.success_rate = 0 /\ response.avg_response_time_ms = 0
        /\ (request.endpoint = "compare_bulk_users" /\ results = <<>>) =>
              /\ RatEq(response.tikapi_success_rate, Zero)
              /\ RatEq(response.tiktok_live_success_rate, Zero)
        /\ (request.endpoint = "compare_bulk_users"
              /\ CountDefined(results) = 0) =>
              RatEq(response.match_rate, Zero)

\* the failure of an entry is reported in the entry itself
FailureInline(req, r) ==
    CASE req.endpoint = "compare_bulk_users" ->
           /\ ~r.tikapi_success => r.tikapi_error # None
           /\ ~r.tiktok_live_success => r.tiktok_live_error # None
      [] OTHER -> ~r.success => r.error # None

\* C8 as stated: for every list of identifiers and every combination of probe
\* outcomes the batch completes, and its results hold exactly one entry per
\* input identifier, in input order, failures reported inline.
C8_Claim_BatchAlwaysCompletes ==
    (Finished /\ IsBatch(request)) =>
        /\ pc = "done"
        /\ Len(response.results) = NumItems(request)
        /\ \A k \in 1..NumItems(request) :
             /\ response.results[k].username = UserOfItem(request, k)
             /\ FailureInline(request, response.results[k])

IsProbeCall ==
    request.endpoint \in {"check_live_status", "check_with_tiktok_live",
                          "check_user_live_status"}

\* C9 as stated: a probe call never raises; a failed result (time-out,
\* connection failure, non-200 status, exception while decoding) has no
\* is_live value and a non-empty error message; is_live is a boolean only
\* when the probe succeeded.
C9_Claim_FailedProbeDescribesError ==
    (IsProbeCall /\ pc # "start") =>
        /\ pc = "done" /\ ~response.raised
        /\ ~response.success =>
              /\ response.is_live \in {"None", "absent"}
              /\ response.error # None
              /\ response.error # Some("")
        /\ response.is_live \in {"True", "False"} => response.success

\* the live-indicator fields the claim names, wherever the payload holds them
KnownFieldTruthy(p) ==
    \/ Truthy(PyValue(p.roomId))
    \/ Truthy(PyValue(p.ui_roomId))
    \/ Truthy(PyValue(p.ui_room_id))
    \/ Truthy(PyValue(p.ui_isLive))
    \/ Truthy(PyValue(p.ui_is_live))
    \/ Truthy(PyValue(p.user_is_live))
    \/ Truthy(PyValue(p.data_is_live))

=============================================================================
